---- MODULE Spec2Model ----
(***************************************************************************)
(* Model of the amazon-ebook-scraper core: the value-object factories,     *)
(* the HTML parsers, the retrying HttpClient, the ScraperService           *)
(* orchestrator, the legacy scrapeAmazonProduct function and the           *)
(* notification pipeline (processUrl, processBatch).                       *)
(*                                                                         *)
(* Strings are modelled as sequences of chunks (a chunk is a run of        *)
(* characters that the code never splits); CharLen gives a chunk's length. *)
(***************************************************************************)
EXTENDS Integers, Sequences, FiniteSets, TLC

VARIABLES entry, config, urls, tasks, results, legacy, call, pipe

vars == <<entry, config, urls, tasks, results, legacy, call, pipe>>

(***************************************************************************)
(* Bounds of the model                                                     *)
(***************************************************************************)
MaxUrls == 2
MaxRetriesBound == 2
MaxBatchRetries == 1

(***************************************************************************)
(* Generic helpers                                                         *)
(***************************************************************************)
Min(a, b) == IF a < b THEN a ELSE b

RECURSIVE Pow2(_)
Pow2(n) == IF n = 0 THEN 1 ELSE 2 * Pow2(n - 1)

Range(s) == {s[k] : k \in 1..Len(s)}

WhitespaceChunks == {" ", "\n"}

\* String.prototype.trim on a chunk sequence
RECURSIVE TrimLeft(_)
TrimLeft(s) ==
  IF s = <<>> THEN <<>>
  ELSE IF Head(s) \in WhitespaceChunks THEN TrimLeft(Tail(s)) ELSE s

RECURSIVE TrimRight(_)
TrimRight(s) ==
  IF s = <<>> THEN <<>>
  ELSE IF s[Len(s)] \in WhitespaceChunks
       THEN TrimRight(SubSeq(s, 1, Len(s) - 1)) ELSE s

Trim(s) == TrimRight(TrimLeft(s))

\* number of characters of one chunk
CharLen(c) ==
  CASE c = "ab" -> 2
    [] c = "Test" -> 4
    [] c = "Book" -> 4
    [] c = "<script" -> 7
    [] c = "<SCRIPT" -> 7
    [] c = "javascript:" -> 11
    [] c = "x500" -> 500
    [] c = "000" -> 3
    [] c = "9x50" -> 50
    [] c = "free" -> 4
    [] OTHER -> 1

RECURSIVE StrLen(_)
StrLen(s) == IF s = <<>> THEN 0 ELSE CharLen(Head(s)) + StrLen(Tail(s))

(***************************************************************************)
(* Result algebra                                                          *)
(***************************************************************************)
ok(data) == [success |-> TRUE, data |-> data]

err(error) == [success |-> FALSE, error |-> error]

(***************************************************************************)
(* Value objects                                                           *)
(***************************************************************************)
SchemeChunks == {"https://", "http://"}
HostChunks == {"www.", "amazon.co.jp", "example.com"}

\* new URL(trimmed): throws unless scheme and host are present
UrlParses(s) == Len(s) >= 2 /\ s[1] \in SchemeChunks /\ s[2] \in HostChunks

UrlProtocol(s) == s[1]

RECURSIVE HostRun(_)
HostRun(s) ==
  IF s = <<>> \/ Head(s) \notin HostChunks THEN <<>>
  ELSE <<Head(s)>> \o HostRun(Tail(s))

UrlHostname(s) == HostRun(Tail(s))

UrlPathname(s) == SubSeq(s, 2 + Len(UrlHostname(s)), Len(s))

InvalidAmazonURL(message, input) ==
  [type |-> "InvalidAmazonURL", message |-> message, value |-> input]

\* variant: the domain check is missing
createAmazonURL_NoDomainCheck(input) ==
  LET trimmed == Trim(input) IN
  IF trimmed = <<>> THEN err(InvalidAmazonURL("URL cannot be empty", input))
  ELSE IF ~UrlParses(trimmed)
  THEN err(InvalidAmazonURL("Invalid URL format", input))
  ELSE IF UrlProtocol(trimmed) # "https://"
  THEN err(InvalidAmazonURL("URL must use HTTPS protocol", input))
  ELSE IF "/dp/" \notin Range(UrlPathname(trimmed))
          /\ "/gp/product/" \notin Range(UrlPathname(trimmed))
  THEN err(InvalidAmazonURL("URL must be a valid Amazon product URL", input))
  ELSE ok(trimmed)

createAmazonURL(input) ==
  LET trimmed == Trim(input) IN
  IF trimmed = <<>> THEN err(InvalidAmazonURL("URL cannot be empty", input))
  ELSE IF ~UrlParses(trimmed)
  THEN err(InvalidAmazonURL("Invalid URL format", input))
  ELSE IF UrlProtocol(trimmed) # "https://"
  THEN err(InvalidAmazonURL("URL must use HTTPS protocol", input))
  ELSE IF "amazon.co.jp" \notin Range(UrlHostname(trimmed))
  THEN err(InvalidAmazonURL("URL must be from amazon.co.jp domain", input))
  ELSE IF "/dp/" \notin Range(UrlPathname(trimmed))
          /\ "/gp/product/" \notin Range(UrlPathname(trimmed))
  THEN err(InvalidAmazonURL("URL must be a valid Amazon product URL", input))
  ELSE ok(trimmed)

\* input.replace(/\s+/g, " ").trim()
RECURSIVE CollapseWhitespace(_)
CollapseWhitespace(s) ==
  IF s = <<>> THEN <<>>
  ELSE IF Head(s) \in WhitespaceChunks
       THEN <<" ">> \o CollapseWhitespace(TrimLeft(s))
       ELSE <<Head(s)>> \o CollapseWhitespace(Tail(s))

MaliciousChunks == {"<script", "<SCRIPT", "javascript:"}

InvalidProductTitle(message, input) ==
  [type |-> "InvalidProductTitle", message |-> message, value |-> input]

\* variant: the length limits are checked on the raw input
createProductTitle_LengthOfInput(input) ==
  LET normalized == Trim(CollapseWhitespace(input)) IN
  IF normalized = <<>>
  THEN err(InvalidProductTitle("Product title cannot be empty", input))
  ELSE IF StrLen(input) < 3
  THEN err(InvalidProductTitle("Product title must be at least 3 characters long", input))
  ELSE IF StrLen(input) > 500
  THEN err(InvalidProductTitle("Product title cannot exceed 500 characters", input))
  ELSE IF Range(normalized) \cap MaliciousChunks # {}
  THEN err(InvalidProductTitle("Product title contains potentially malicious content", input))
  ELSE ok(normalized)

createProductTitle(input) ==
  LET normalized == Trim(CollapseWhitespace(input)) IN
  IF normalized = <<>>
  THEN err(InvalidProductTitle("Product title cannot be empty", input))
  ELSE IF StrLen(normalized) < 3
  THEN err(InvalidProductTitle("Product title must be at least 3 characters long", input))
  ELSE IF StrLen(normalized) > 500
  THEN err(InvalidProductTitle("Product title cannot exceed 500 characters", input))
  ELSE IF Range(normalized) \cap MaliciousChunks # {}
  THEN err(InvalidProductTitle("Product title contains potentially malicious content", input))
  ELSE ok(normalized)

YenChunks == {"Y_FULL", "Y_HALF"}
DigitChunks == {"1", "000", "9x50"}

InvalidProductPrice(message, input) ==
  [type |-> "InvalidProductPrice", message |-> message, value |-> input]

\* /[Y]?\d{1,3}(,\d{3})*([Y]|EN)?/.test(s): unanchored, so any digit matches
PricePatternTest(s) == Range(s) \cap DigitChunks # {}

createProductPrice(input) ==
  LET trimmed == Trim(input)
      hasYenSymbol == Range(trimmed) \cap YenChunks # {}
      hasDigits == Range(trimmed) \cap DigitChunks # {}
  IN
  IF trimmed = <<>>
  THEN err(InvalidProductPrice("Product price cannot be empty", input))
  ELSE IF ~hasYenSymbol /\ ~hasDigits
  THEN err(InvalidProductPrice("Product price must contain yen symbol or digits", input))
  ELSE IF ~PricePatternTest(trimmed)
  THEN err(InvalidProductPrice("Product price format is invalid", input))
  ELSE IF StrLen(trimmed) > 50
  THEN err(InvalidProductPrice("Product price cannot exceed 50 characters", input))
  ELSE ok(trimmed)

(***************************************************************************)
(* Product                                                                 *)
(***************************************************************************)
\* variant: reports only the first validation error
createProduct_FirstErrorOnly(url, title, price, now) ==
  LET urlResult == createAmazonURL(url)
      titleResult == createProductTitle(title)
      priceResult == createProductPrice(price)
  IN
  IF ~urlResult.success
  THEN err([type |-> "ProductCreationFailed", details |-> <<urlResult.error>>])
  ELSE IF ~titleResult.success
  THEN err([type |-> "ProductCreationFailed", details |-> <<titleResult.error>>])
  ELSE IF ~priceResult.success
  THEN err([type |-> "ProductCreationFailed", details |-> <<priceResult.error>>])
  ELSE ok([url |-> urlResult.data, title |-> titleResult.data,
           price |-> priceResult.data, timestamp |-> now])

createProduct(url, title, price, now) ==
  LET urlResult == createAmazonURL(url)
      titleResult == createProductTitle(title)
      priceResult == createProductPrice(price)
      errors == (IF urlResult.success THEN <<>> ELSE <<urlResult.error>>)
                \o (IF titleResult.success THEN <<>> ELSE <<titleResult.error>>)
                \o (IF priceResult.success THEN <<>> ELSE <<priceResult.error>>)
  IN
  IF Len(errors) > 0
  THEN err([type |-> "ProductCreationFailed", details |-> errors])
  ELSE ok([url |-> urlResult.data, title |-> titleResult.data,
           price |-> priceResult.data, timestamp |-> now])

\* variant: the timestamp is assigned on the input object, which is returned
updateProductTimestamp_InPlace(product, newTimestamp) ==
  [product |-> [product EXCEPT !.timestamp = newTimestamp],
   returned |-> [product EXCEPT !.timestamp = newTimestamp],
   aliased |-> TRUE]

\* ({...product, timestamp: newTimestamp}): the input object after the call,
\* the returned object, and whether the two are one object
updateProductTimestamp(product, newTimestamp) ==
  [product |-> product,
   returned |-> [product EXCEPT !.timestamp = newTimestamp],
   aliased |-> FALSE]

(***************************************************************************)
(* HTML documents and field extraction                                     *)
(*                                                                         *)
(* A document is the sequence of its elements in document order; an        *)
(* element is the set of selectors it matches and its text content.        *)
(***************************************************************************)
TITLE_SELECTORS ==
  <<"#productTitle", "span#productTitle", "h1.a-size-large", "h1 span",
    ".product-title">>

PRICE_SELECTORS ==
  <<".a-price-current .a-offscreen", ".a-price .a-offscreen",
    ".a-price-whole", ".a-offscreen", "span.a-price", ".kindle-price",
    ".a-color-price">>

Element(sels, text) == [sels |-> sels, text |-> text]

TitleElement(text) ==
  Element({"#productTitle", "span#productTitle"}, text)

HeadingElement(text) == Element({"h1 span"}, text)

PriceElement(text) ==
  Element({".a-price-current .a-offscreen", ".a-price .a-offscreen",
           ".a-offscreen"}, text)

KindlePriceElement(text) == Element({".kindle-price", ".a-color-price"}, text)

GoodTitle == <<"Test", " ", "Book">>
GoodPrice == <<"Y_FULL", "1", ",", "000">>

GoodPage == <<TitleElement(GoodTitle), PriceElement(GoodPrice)>>
NoTitlePage == <<PriceElement(GoodPrice)>>
NoPricePage == <<TitleElement(GoodTitle), KindlePriceElement(<<"free">>)>>
ShortTitlePage == <<TitleElement(<<" ", "ab", " ">>), PriceElement(GoodPrice)>>
YenOnlyPage == <<HeadingElement(GoodTitle), KindlePriceElement(<<"Y_HALF">>)>>

Pages == {GoodPage, NoTitlePage, NoPricePage, ShortTitlePage, YenOnlyPage}

\* $(selector).first().text().trim()
RECURSIVE FirstText(_, _)
FirstText(doc, selector) ==
  IF doc = <<>> THEN <<>>
  ELSE IF selector \in Head(doc).sels THEN Trim(Head(doc).text)
  ELSE FirstText(Tail(doc), selector)

IsNonEmptyText(text) == Len(text) > 0

isValidPriceText(text) ==
  Len(text) > 0 /\ Range(text) \cap (YenChunks \cup DigitChunks) # {}

\* the accept predicate of a field
Accepts(field, text) ==
  IF field = "price" THEN isValidPriceText(text) ELSE IsNonEmptyText(text)

\* index of the first selector whose first match is accepted, 0 if none
RECURSIVE FirstAccepted(_, _, _, _)
FirstAccepted(doc, selectors, k, field) ==
  IF k > Len(selectors) THEN 0
  ELSE IF Accepts(field, FirstText(doc, selectors[k])) THEN k
  ELSE FirstAccepted(doc, selectors, k + 1, field)

ElementNotFound(message, selectors) ==
  [type |-> "ElementNotFound", message |-> message, selectors |-> selectors]

extractTitleField(doc) ==
  LET k == FirstAccepted(doc, TITLE_SELECTORS, 1, "title") IN
  IF k = 0
  THEN err(ElementNotFound("Could not find product title", TITLE_SELECTORS))
  ELSE ok(FirstText(doc, TITLE_SELECTORS[k]))

extractPriceField(doc) ==
  LET k == FirstAccepted(doc, PRICE_SELECTORS, 1, "price") IN
  IF k = 0
  THEN err(ElementNotFound("Could not find product price", PRICE_SELECTORS))
  ELSE ok(FirstText(doc, PRICE_SELECTORS[k]))

\* fail-fast full-page extraction
parseProductData(body) ==
  LET titleResult == extractTitleField(body) IN
  IF ~titleResult.success THEN titleResult
  ELSE LET priceResult == extractPriceField(body) IN
       IF ~priceResult.success THEN priceResult
       ELSE ok([title |-> titleResult.data, price |-> priceResult.data])

\* aggregating variant: one error per field that was not found
parseProductDataWithErrors(body) ==
  LET titleResult == extractTitleField(body)
      priceResult == extractPriceField(body)
      errors == (IF titleResult.success THEN <<>> ELSE <<titleResult.error>>)
                \o (IF priceResult.success THEN <<>> ELSE <<priceResult.error>>)
  IN IF Len(errors) > 0 THEN err(errors)
     ELSE ok([title |-> titleResult.data, price |-> priceResult.data])

(***************************************************************************)
(* HTTP client                                                             *)
(***************************************************************************)
DEFAULT_RETRY_DELAY == 1000
MAX_BACKOFF_MS == 30000

\* what got() can throw: the properties mapGotError inspects
GotError(code, name, status) ==
  [isObject |-> TRUE, code |-> code, name |-> name, status |-> status]

ThrownString == [isObject |-> FALSE, code |-> "", name |-> "", status |-> 0]

GotErrors ==
  { GotError("ECONNREFUSED", "RequestError", 0),
    GotError("ETIMEDOUT", "TimeoutError", 0),
    GotError("", "HTTPError", 400),
    GotError("", "HTTPError", 404),
    GotError("", "HTTPError", 499),
    GotError("", "HTTPError", 500),
    GotError("", "ParseError", 0),
    GotError("", "Error", 0),
    ThrownString }

\* id is the identity of the error object: the number of the transport
\* invocation that produced it
HttpError(type, statusCode, id) ==
  [type |-> type, statusCode |-> statusCode, id |-> id]

mapGotError(error, id) ==
  IF ~error.isObject THEN HttpError("UnknownError", 0, id)
  ELSE IF error.code = "ETIMEDOUT" \/ error.name = "TimeoutError"
  THEN HttpError("TimeoutError", 0, id)
  ELSE IF error.code = "ENOTFOUND" \/ error.code = "ECONNREFUSED"
  THEN HttpError("NetworkError", 0, id)
  ELSE IF error.status # 0
  THEN HttpError("StatusError", error.status, id)
  ELSE IF error.name = "ParseError"
  THEN HttpError("ParseError", 0, id)
  ELSE HttpError("UnknownError", 0, id)

\* variant: the delay is not capped
createExponentialDelay_NoCap(attempt, baseDelay) ==
  baseDelay * Pow2(attempt)

createExponentialDelay(attempt, baseDelay) ==
  Min(baseDelay * Pow2(attempt), MAX_BACKOFF_MS)

\* outcome of one got() call: a response or a thrown error
GotResponse(body) == [threw |-> FALSE, body |-> body, statusCode |-> 200]

GotThrow(error) == [threw |-> TRUE, error |-> error]

attemptRequest(outcome, url, id) ==
  IF outcome.threw THEN err(mapGotError(outcome.error, id))
  ELSE ok([body |-> outcome.body, statusCode |-> outcome.statusCode,
           url |-> url])

\* variant: client errors (4xx) are retried like any other failure
retryWithBackoff_RetriesClientErrors(result, maxRetries, baseDelay, currentAttempt) ==
  IF result.success \/ currentAttempt >= maxRetries
  THEN [return |-> TRUE, result |-> result]
  ELSE [return |-> FALSE,
        delay |-> createExponentialDelay(currentAttempt, baseDelay),
        currentAttempt |-> currentAttempt + 1]

\* variant: a TimeoutError is returned at once instead of being retried
retryWithBackoff_TimeoutTerminal(result, maxRetries, baseDelay, currentAttempt) ==
  IF result.success \/ currentAttempt >= maxRetries
  THEN [return |-> TRUE, result |-> result]
  ELSE IF result.error.type = "TimeoutError"
          \/ (result.error.type = "StatusError"
              /\ result.error.statusCode >= 400
              /\ result.error.statusCode < 500)
  THEN [return |-> TRUE, result |-> result]
  ELSE [return |-> FALSE,
        delay |-> createExponentialDelay(currentAttempt, baseDelay),
        currentAttempt |-> currentAttempt + 1]

\* variant: exhausting the retries returns a generic error
retryWithBackoff_GenericError(result, maxRetries, baseDelay, currentAttempt) ==
  IF result.success
  THEN [return |-> TRUE, result |-> result]
  ELSE IF currentAttempt >= maxRetries
  THEN [return |-> TRUE, result |-> err(HttpError("UnknownError", 0, 0))]
  ELSE IF result.error.type = "StatusError"
          /\ result.error.statusCode >= 400
          /\ result.error.statusCode < 500
  THEN [return |-> TRUE, result |-> result]
  ELSE [return |-> FALSE,
        delay |-> createExponentialDelay(currentAttempt, baseDelay),
        currentAttempt |-> currentAttempt + 1]

\* variant: every StatusError is terminal, server errors included
retryWithBackoff_ServerErrorsTerminal(result, maxRetries, baseDelay, currentAttempt) ==
  IF result.success \/ currentAttempt >= maxRetries
  THEN [return |-> TRUE, result |-> result]
  ELSE IF result.error.type = "StatusError"
          /\ result.error.statusCode >= 400
  THEN [return |-> TRUE, result |-> result]
  ELSE [return |-> FALSE,
        delay |-> createExponentialDelay(currentAttempt, baseDelay),
        currentAttempt |-> currentAttempt + 1]

\* variant: the attempts are not limited by maxRetries
retryWithBackoff_UnboundedRetries(result, maxRetries, baseDelay, currentAttempt) ==
  IF result.success
  THEN [return |-> TRUE, result |-> result]
  ELSE IF result.error.type = "StatusError"
          /\ result.error.statusCode >= 400
          /\ result.error.statusCode < 500
  THEN [return |-> TRUE, result |-> result]
  ELSE [return |-> FALSE,
        delay |-> createExponentialDelay(currentAttempt, baseDelay),
        currentAttempt |-> currentAttempt + 1]

\* the decision retryWithBackoff takes once operation() has settled:
\* return the result, or wait and run the operation again
retryWithBackoff(result, maxRetries, baseDelay, currentAttempt) ==
  IF result.success \/ currentAttempt >= maxRetries
  THEN [return |-> TRUE, result |-> result]
  ELSE IF result.error.type = "StatusError"
          /\ result.error.statusCode >= 400
          /\ result.error.statusCode < 500
  THEN [return |-> TRUE, result |-> result]
  ELSE [return |-> FALSE,
        delay |-> createExponentialDelay(currentAttempt, baseDelay),
        currentAttempt |-> currentAttempt + 1]

isRetryableError(error) ==
  CASE error.type \in {"NetworkError", "TimeoutError"} -> TRUE
    [] error.type = "StatusError" -> error.statusCode >= 500
    [] OTHER -> FALSE

(***************************************************************************)
(* Scraper service                                                         *)
(***************************************************************************)
Pending == [pending |-> TRUE]

StageOrder == <<"validate", "fetch", "extract", "assemble">>

Stage(name, succeeded) == [stage |-> name, ok |-> succeeded]

\* Math.floor(Date.now() / 1000) at the time a product is assembled
Times == {1700000000}

\* scrapeProduct up to its first suspension: URL validation, then the
\* first transport invocation made by httpClient.get
scrapeProductStart(url) ==
  LET urlResult == createAmazonURL(url) IN
  IF ~urlResult.success
  THEN [pc |-> "done", url |-> url, currentAttempt |-> 0, calls |-> 0,
        failures |-> 0, waits |-> <<>>, last |-> Pending, seen |-> {},
        httpResult |-> Pending, stages |-> <<Stage("validate", FALSE)>>,
        result |-> err([type |-> "UrlValidationError",
                        message |-> urlResult.error.message, url |-> url])]
  ELSE [pc |-> "inflight", url |-> urlResult.data, currentAttempt |-> 0,
        calls |-> 1, failures |-> 0, waits |-> <<>>, last |-> Pending,
        seen |-> {}, httpResult |-> Pending,
        stages |-> <<Stage("validate", TRUE)>>, result |-> Pending]

\* variant: a failed extraction does not short-circuit; assembly still runs
scrapeProductFinish_NoShortCircuit(url, httpResult, now) ==
  IF ~httpResult.success
  THEN [stages |-> <<Stage("fetch", FALSE)>>,
        result |-> err([type |-> "HttpError",
                        message |-> httpResult.error.type,
                        httpError |-> httpResult.error])]
  ELSE LET parseResult == parseProductData(httpResult.data.body)
           title == IF parseResult.success THEN parseResult.data.title ELSE <<>>
           price == IF parseResult.success THEN parseResult.data.price ELSE <<>>
           productResult == createProduct(url, title, price, now)
       IN IF ~productResult.success
          THEN [stages |-> <<Stage("fetch", TRUE),
                             Stage("extract", parseResult.success),
                             Stage("assemble", FALSE)>>,
                result |-> err([type |-> "ProductCreationError",
                                message |-> productResult.error.type,
                                cause |-> productResult.error])]
          ELSE [stages |-> <<Stage("fetch", TRUE), Stage("extract", TRUE),
                             Stage("assemble", TRUE)>>,
                result |-> ok(productResult.data)]

\* scrapeProduct from the point httpClient.get has returned httpResult
scrapeProductFinish(url, httpResult, now) ==
  IF ~httpResult.success
  THEN [stages |-> <<Stage("fetch", FALSE)>>,
        result |-> err([type |-> "HttpError",
                        message |-> httpResult.error.type,
                        httpError |-> httpResult.error])]
  ELSE LET parseResult == parseProductData(httpResult.data.body) IN
    IF ~parseResult.success
    THEN [stages |-> <<Stage("fetch", TRUE), Stage("extract", FALSE)>>,
          result |-> err([type |-> "ParsingError",
                          message |-> parseResult.error.type,
                          parsingError |-> parseResult.error])]
    ELSE LET productResult ==
               createProduct(url, parseResult.data.title,
                             parseResult.data.price, now) IN
      IF ~productResult.success
      THEN [stages |-> <<Stage("fetch", TRUE), Stage("extract", TRUE),
                         Stage("assemble", FALSE)>>,
            result |-> err([type |-> "ProductCreationError",
                            message |-> productResult.error.type,
                            cause |-> productResult.error])]
      ELSE [stages |-> <<Stage("fetch", TRUE), Stage("extract", TRUE),
                         Stage("assemble", TRUE)>>,
            result |-> ok(productResult.data)]

\* scrapeProductFunctional, httpResult being what httpClient.get(validUrl)
\* resolves to; map and flatMap of result.ts hand a failed Result on as it
\* is
scrapeProductFunctional(url, httpResult, now) ==
  LET map(result, fn(_)) ==
        IF result.success THEN ok(fn(result.data)) ELSE result
      flatMap(result, fn(_)) ==
        IF result.success THEN fn(result.data) ELSE result
  IN
  flatMap(createAmazonURL(url), LAMBDA validUrl :
    flatMap(httpResult, LAMBDA httpResponse :
      flatMap(parseProductData(httpResponse.body), LAMBDA parsedData :
        map(createProduct(validUrl, parsedData.title, parsedData.price, now),
            LAMBDA product : product))))

isScraperErrorRetryable(error) ==
  CASE error.type = "HttpError" ->
         error.httpError.type \in {"NetworkError", "TimeoutError"}
    [] error.type = "ServiceError" -> TRUE
    [] error.type \in {"UrlValidationError", "ParsingError",
                       "ProductCreationError"} -> FALSE
    [] OTHER -> FALSE

\* Promise.all(urls.map((url) => this.scrapeProduct(url))): every
\* scrapeProduct call is started before the first one is awaited
scrapeMultipleProductsStart(us) ==
  [i \in 1..Len(us) |-> scrapeProductStart(us[i])]

\* variant: only the successful results are reported
PromiseAll_DropFailures(ts) ==
  SelectSeq([i \in 1..Len(ts) |-> ts[i].result], LAMBDA r : r.success)

\* the value Promise.all resolves to: the settled results in input order
PromiseAll(ts) == [i \in 1..Len(ts) |-> ts[i].result]

\* class of a settled attempt, recorded per task
ErrorClass(error) ==
  CASE error.type = "NetworkError" -> "network"
    [] error.type = "TimeoutError" -> "timeout"
    [] error.type = "StatusError" /\ error.statusCode >= 500 -> "5xx"
    [] error.type = "StatusError" -> "4xx"
    [] OTHER -> "other"

ResultClass(result) ==
  IF result.success THEN "success" ELSE ErrorClass(result.error)

(***************************************************************************)
(* Legacy scraper: scrapeAmazonProduct                                     *)
(***************************************************************************)
\* url.includes("amazon.co.jp") on the raw string
validateAmazonUrl(url) == "amazon.co.jp" \in Range(url)

\* $(selector).text().trim(): the texts of all matches, concatenated
RECURSIVE AllText(_, _)
AllText(doc, selector) ==
  IF doc = <<>> THEN <<>>
  ELSE (IF selector \in Head(doc).sels THEN Head(doc).text ELSE <<>>)
       \o AllText(Tail(doc), selector)

RECURSIVE findTextBySelectors(_, _, _)
findTextBySelectors(doc, selectors, k) ==
  IF k > Len(selectors) THEN <<>>
  ELSE IF Len(Trim(AllText(doc, selectors[k]))) > 0
  THEN Trim(AllText(doc, selectors[k]))
  ELSE findTextBySelectors(doc, selectors, k + 1)

RECURSIVE findPriceBySelectors(_, _, _)
findPriceBySelectors(doc, selectors, k) ==
  IF k > Len(selectors) THEN <<>>
  ELSE IF isValidPriceText(FirstText(doc, selectors[k]))
  THEN FirstText(doc, selectors[k])
  ELSE findPriceBySelectors(doc, selectors, k + 1)

createScrapedProduct(title, price, now) ==
  [title |-> Trim(CollapseWhitespace(title)), price |-> Trim(price),
   timestamp |-> now]

createParseError(type, message) == [type |-> type, message |-> message]

extractTitle(doc) ==
  LET title == findTextBySelectors(doc, TITLE_SELECTORS, 1) IN
  IF title = <<>>
  THEN err(createParseError("TITLE_NOT_FOUND", "Could not find product title"))
  ELSE ok(title)

extractPrice(doc) ==
  LET price == findPriceBySelectors(doc, PRICE_SELECTORS, 1) IN
  IF price = <<>>
  THEN err(createParseError("PRICE_NOT_FOUND", "Could not find product price"))
  ELSE ok(price)

\* createProductData of the first value-objects module and its factories
createProductData(title, price, now) ==
  LET cleanTitle == Trim(CollapseWhitespace(title))
      cleanPrice == Trim(price)
  IN IF Len(cleanTitle) = 0 THEN err("Product title cannot be empty")
     ELSE IF Len(cleanPrice) = 0 THEN err("Product price cannot be empty")
     ELSE IF Range(cleanPrice) \cap (YenChunks \cup DigitChunks) = {}
     THEN err("Invalid price format")
     ELSE ok([title |-> cleanTitle, price |-> cleanPrice, timestamp |-> now])

\* variant: looks for the price before the title
parseProductFromHtml_PriceFirst(html, now) ==
  LET priceResult == extractPrice(html) IN
  IF ~priceResult.success THEN priceResult
  ELSE LET titleResult == extractTitle(html) IN
       IF ~titleResult.success THEN titleResult
       ELSE createProductData(titleResult.data, priceResult.data, now)

parseProductFromHtml(html, now) ==
  LET titleResult == extractTitle(html) IN
  IF ~titleResult.success THEN titleResult
  ELSE LET priceResult == extractPrice(html) IN
       IF ~priceResult.success THEN priceResult
       ELSE createProductData(titleResult.data, priceResult.data, now)

Thrown(message, status) == [threw |-> TRUE, message |-> message, status |-> status]

Returned(value) == [threw |-> FALSE, value |-> value]

\* extractProductData: returns the product or throws
extractProductData(html, now) ==
  LET title == findTextBySelectors(html, TITLE_SELECTORS, 1)
      price == findPriceBySelectors(html, PRICE_SELECTORS, 1)
  IN IF title = <<>> THEN Thrown("Could not find product title", 0)
     ELSE IF price = <<>> THEN Thrown("Could not find product price", 0)
     ELSE Returned(createScrapedProduct(title, price, now))

\* message of the value got() threw; a thrown non-object has none
GotMessage(error) == IF error.isObject THEN error.name ELSE "Unknown error"

\* attemptScrape: one got() call followed by extraction
attemptScrape(outcome, now) ==
  IF outcome.threw
  THEN Thrown(GotMessage(outcome.error), outcome.error.status)
  ELSE extractProductData(outcome.body, now)

createScraperError(url, retries, lastError) ==
  [threw |-> TRUE, attempts |-> retries, message |-> lastError.message,
   url |-> url, status |-> lastError.status]

\* variant: gives up only once currentAttempt has passed maxRetries
legacyRetryWithBackoff_ExtraAttempt(r, maxRetries, currentAttempt) ==
  IF ~r.threw THEN [return |-> TRUE, result |-> r]
  ELSE IF currentAttempt > maxRetries THEN [return |-> TRUE, result |-> r]
  ELSE [return |-> FALSE, delay |-> Pow2(currentAttempt) * 1000,
        currentAttempt |-> currentAttempt + 1]

\* the decision the legacy retryWithBackoff takes once operation() settled
legacyRetryWithBackoff(r, maxRetries, currentAttempt) ==
  IF ~r.threw THEN [return |-> TRUE, result |-> r]
  ELSE IF currentAttempt = maxRetries THEN [return |-> TRUE, result |-> r]
  ELSE [return |-> FALSE, delay |-> Pow2(currentAttempt) * 1000,
        currentAttempt |-> currentAttempt + 1]

\* what one attemptScrape call ended with
AttemptClass(r) ==
  IF ~r.threw THEN "success"
  ELSE IF r.message \in {"Could not find product title",
                         "Could not find product price"}
  THEN "extraction"
  ELSE "transport"

LegacyIdle ==
  [pc |-> "idle", url |-> <<>>, retries |-> 0, currentAttempt |-> 0,
   calls |-> 0, waits |-> <<>>, last |-> Pending, seen |-> {},
   failures |-> 0, outcome |-> Pending]

\* scrapeAmazonProduct up to its first suspension
scrapeAmazonProductStart(url, retries) ==
  LET started == [LegacyIdle EXCEPT !.url = url, !.retries = retries,
                                    !.currentAttempt = 1]
  IN IF ~validateAmazonUrl(url)
     THEN [started EXCEPT !.pc = "done",
             !.outcome = createScraperError(url, retries,
                           Thrown("URL must be from amazon.co.jp domain", 0))]
     ELSE IF 1 > retries
     THEN [started EXCEPT !.pc = "done",
             !.outcome = createScraperError(url, retries,
                           Thrown("Max retries exceeded", 0))]
     ELSE [started EXCEPT !.pc = "inflight", !.calls = 1]

\* scrapeAmazonProduct once the got() call of the current attempt settled:
\* the attempt's result, and the return, the throw or the backoff wait
attemptSettled(l, outcome, now) ==
  LET r == attemptScrape(outcome, now)
      d == legacyRetryWithBackoff(r, l.retries, l.currentAttempt)
      settled == [l EXCEPT !.last = r,
                    !.seen = @ \cup {AttemptClass(r)},
                    !.failures = IF r.threw THEN @ + 1 ELSE @]
  IN IF d.return
     THEN [settled EXCEPT !.pc = "done",
             !.outcome = IF r.threw
                         THEN createScraperError(l.url, l.retries, r)
                         ELSE r]
     ELSE [settled EXCEPT !.pc = "waiting",
             !.waits = Append(@, d.delay),
             !.currentAttempt = d.currentAttempt]

(***************************************************************************)
(* Notification pipeline                                                   *)
(***************************************************************************)
\* an optional field is <<>> when absent and <<v>> when it holds v
Undefined == <<>>

validateUrl(url) ==
  IF url = <<>>
  THEN err([type |-> "validation_error",
            message |-> "URL must be a non-empty string", url |-> <<>>])
  ELSE IF "amazon.co.jp" \notin Range(url)
  THEN err([type |-> "validation_error",
            message |-> "URL must be from amazon.co.jp domain", url |-> url])
  ELSE ok(url)

\* config.scraper?.delayBetweenRequests || 1000
delayMs(cfg) ==
  IF cfg.delayBetweenRequests = Undefined \/ cfg.delayBetweenRequests = <<0>>
  THEN 1000
  ELSE cfg.delayBetweenRequests[1]

\* opts.retries of { ...DEFAULT_OPTIONS, ...config.scraper }
scraperRetries(cfg) == IF cfg.retries = Undefined THEN 3 ELSE cfg.retries[1]

\* processUrl, the catch block
processUrlCaught(url, error) ==
  [url |-> url, success |-> FALSE,
   error |-> [type |-> "scraping_error",
              message |-> <<error.attempts, error.message>>, url |-> url]]

\* variant: the product is dropped when the notification fails
processUrlNotified_DropsProduct(url, scrapedProduct, notificationResult) ==
  IF ~notificationResult.success
  THEN [url |-> url, success |-> FALSE,
        error |-> [type |-> "notification_error",
                   message |-> notificationResult.error.message, url |-> url]]
  ELSE [url |-> url, success |-> TRUE, data |-> scrapedProduct]

\* processUrl once the notification pipeline has resolved
processUrlNotified(url, scrapedProduct, notificationResult) ==
  IF ~notificationResult.success
  THEN [url |-> url, success |-> FALSE, data |-> scrapedProduct,
        error |-> [type |-> "notification_error",
                   message |-> notificationResult.error.message, url |-> url]]
  ELSE [url |-> url, success |-> TRUE, data |-> scrapedProduct]

\* processUrl returned r: the single call is over; processBatch pushes r and
\* either starts the delay before the next URL or returns
processUrlReturns(p, r) ==
  LET q == [p EXCEPT !.results = Append(@, r),
                     !.log = Append(@, <<"end", p.index>>)]
  IN IF p.mode = "batch" /\ p.index < Len(p.urls)
     THEN [q EXCEPT !.pc = "delay",
                    !.waits = Append(@, delayMs(p.config)),
                    !.log = Append(@, <<"wait", p.index>>)]
     ELSE [q EXCEPT !.pc = "done"]

\* processUrl(urls[i], config) up to its first suspension or its return
processUrlStart(p, i) ==
  LET url == p.urls[i]
      q == [p EXCEPT !.index = i, !.log = Append(@, <<"start", i>>)]
      urlResult == validateUrl(url)
      l == scrapeAmazonProductStart(url, scraperRetries(p.config))
      scraping == [q EXCEPT !.log = Append(@, <<"scraping", i>>)]
  IN IF ~urlResult.success
     THEN [pipe |-> processUrlReturns(q, [url |-> url, success |-> FALSE,
                                         error |-> urlResult.error]),
           legacy |-> LegacyIdle]
     ELSE IF l.pc = "done"
     THEN [pipe |-> processUrlReturns(scraping, processUrlCaught(url, l.outcome)),
           legacy |-> l]
     ELSE [pipe |-> [scraping EXCEPT !.pc = "scraping"], legacy |-> l]

PipeStart(mode, us, cfg) ==
  [pc |-> "start", mode |-> mode, config |-> cfg, urls |-> us, index |-> 0,
   results |-> <<>>, waits |-> <<>>, log |-> <<>>]

(***************************************************************************)
(* Command-line pipeline (runScrapingPipeline, runBatchScrapingPipeline)   *)
(*                                                                         *)
(* config.discord has passed validateConfig when the configuration was     *)
(* loaded, so createDiscordNotifier succeeds.                              *)
(***************************************************************************)
\* validateAmazonUrl of the command-line pipeline
pipelineValidateAmazonUrl(url) ==
  IF url = <<>>
  THEN err([type |-> "validation_error",
            message |-> "URL must be a non-empty string", field |-> "url"])
  ELSE IF "amazon.co.jp" \notin Range(url)
  THEN err([type |-> "validation_error",
            message |-> "URL must be from amazon.co.jp domain", field |-> "url"])
  ELSE ok(url)

\* data.product is the array of products of the notification
validateNotificationData(data) ==
  IF data.type # "product_found"
  THEN err([type |-> "validation_error", field |-> "type"])
  ELSE IF Len(data.product) = 0
  THEN err([type |-> "validation_error", field |-> "product",
            message |-> "Product array cannot be empty"])
  ELSE IF \E i \in DOMAIN data.product : data.product[i].title = <<>>
  THEN err([type |-> "validation_error", field |-> "product.title"])
  ELSE IF \E i \in DOMAIN data.product : data.product[i].price = <<>>
  THEN err([type |-> "validation_error", field |-> "product.price"])
  ELSE ok(data)

\* sendNotification up to the webhook request: either the request is sent
\* or the notification has failed without one
sendNotificationStart(data) ==
  LET dataResult == validateNotificationData(data) IN
  IF ~dataResult.success
  THEN [requested |-> FALSE,
        result |-> err([type |-> "notification_error",
                        error |-> dataResult.error])]
  ELSE [requested |-> TRUE]

\* variant: a failed notification is returned in place of the product
runScrapingPipelineNotified_FailsOnNotification(scrapeResult, notifyResult) ==
  IF ~notifyResult.success THEN notifyResult ELSE scrapeResult

\* runScrapingPipeline once sendNotification has resolved: the failure is
\* only logged
runScrapingPipelineNotified(scrapeResult, notifyResult) == scrapeResult

\* runScrapingPipeline returned r; runBatchScrapingPipeline pushes r and
\* then awaits its 1000 ms timer
runScrapingPipelineReturns(p, r) ==
  LET q == [p EXCEPT !.results = Append(@, r),
                     !.log = Append(@, <<"end", p.index>>)]
  IN IF p.mode = "batch"
     THEN [q EXCEPT !.pc = "delay", !.waits = Append(@, 1000),
                    !.log = Append(@, <<"wait", p.index>>)]
     ELSE [q EXCEPT !.pc = "done"]

\* runScrapingPipeline once scrapeProduct has resolved, l being the finished
\* scrapeAmazonProduct call
runScrapingPipelineScraped(p, l) ==
  LET i == p.index
      url == p.urls[i]
      scrapeResult ==
        IF l.outcome.threw
        THEN err([type |-> "scraper_error", message |-> l.outcome.message,
                  url |-> l.outcome.url, status |-> l.outcome.status])
        ELSE ok(l.outcome.value)
      errorData == [type |-> "product_found", product |-> <<>>]
      notificationData ==
        [type |-> "product_found", product |-> <<l.outcome.value>>]
      sent == sendNotificationStart(IF l.outcome.threw THEN errorData
                                    ELSE notificationData)
      notifying == [p EXCEPT !.log = Append(@, <<"sendNotification", i>>)]
      requested == [notifying EXCEPT !.log = Append(@, <<"webhook", i>>)]
  IN IF l.outcome.threw
     THEN IF ~p.config.notifyOnError
          THEN runScrapingPipelineReturns(p, scrapeResult)
          ELSE runScrapingPipelineReturns(
                 IF sent.requested THEN requested ELSE notifying, scrapeResult)
     ELSE IF ~p.config.notifyOnSuccess
          THEN runScrapingPipelineReturns(p, scrapeResult)
          ELSE IF sent.requested
          THEN [requested EXCEPT !.pc = "notifying"]
          ELSE runScrapingPipelineReturns(notifying,
                 runScrapingPipelineNotified(scrapeResult, sent.result))

\* runScrapingPipeline(urls[i], config, options) up to its first suspension
\* or its return
runScrapingPipelineStart(p, i) ==
  LET url == p.urls[i]
      q == [p EXCEPT !.index = i, !.log = Append(@, <<"start", i>>)]
      urlResult == pipelineValidateAmazonUrl(url)
      l == scrapeAmazonProductStart(url, scraperRetries(p.config))
      scraping == [q EXCEPT !.log = Append(@, <<"scraping", i>>)]
  IN IF ~urlResult.success
     THEN [pipe |-> runScrapingPipelineReturns(q, urlResult),
           legacy |-> LegacyIdle]
     ELSE IF l.pc = "done"
     THEN [pipe |-> runScrapingPipelineScraped(scraping, l), legacy |-> l]
     ELSE [pipe |-> [scraping EXCEPT !.pc = "scraping"], legacy |-> l]

(***************************************************************************)
(* Configuration summary                                                   *)
(*                                                                         *)
(* A webhook URL is the sequence of its path segments and "/" separators.  *)
(***************************************************************************)
\* variant: the webhook URL is shown as configured
getConfigSummary_NoMask(cfg) ==
  LET or(x, d) == IF x = Undefined \/ x = <<0>> THEN d ELSE x[1]
      orText(x, d) == IF x = Undefined \/ x = <<"">> THEN d ELSE x[1]
  IN [discord |-> [webhookUrl |-> cfg.webhookUrl,
                   username |-> orText(cfg.username, "default"),
                   timeout |-> or(cfg.timeout, "default")],
      scraper |-> [timeout |-> or(cfg.scraper.timeout, 10000),
                   retries |-> or(cfg.scraper.retries, 3),
                   delayBetweenRequests |->
                     or(cfg.scraper.delayBetweenRequests, 1000)]]

\* webhookUrl.replace(/\/[^/]+$/, "/***") and the x || default fields
getConfigSummary(cfg) ==
  LET or(x, d) == IF x = Undefined \/ x = <<0>> THEN d ELSE x[1]
      orText(x, d) == IF x = Undefined \/ x = <<"">> THEN d ELSE x[1]
      url == cfg.webhookUrl
      slashes == {i \in DOMAIN url : url[i] = "/"}
      last == CHOOSE i \in slashes : \A j \in slashes : j <= i
      masked == IF slashes = {} \/ last = Len(url) THEN url
                ELSE SubSeq(url, 1, last) \o <<"***">>
  IN [discord |-> [webhookUrl |-> masked,
                   username |-> orText(cfg.username, "default"),
                   timeout |-> or(cfg.timeout, "default")],
      scraper |-> [timeout |-> or(cfg.scraper.timeout, 10000),
                   retries |-> or(cfg.scraper.retries, 3),
                   delayBetweenRequests |->
                     or(cfg.scraper.delayBetweenRequests, 1000)]]

(***************************************************************************)
(* Inputs                                                                  *)
(***************************************************************************)
ValidUrl == <<"https://", "www.", "amazon.co.jp", "/dp/", "B07ABCDEFG">>
PaddedUrl ==
  <<" ", "https://", "amazon.co.jp", "/gp/product/", "B07ABCDEFG", " ">>
HttpUrl == <<"http://", "www.", "amazon.co.jp", "/dp/", "B07ABCDEFG">>
OtherDomainUrl == <<"https://", "example.com", "/dp/", "amazon.co.jp">>
SearchUrl == <<"https://", "www.", "amazon.co.jp", "/s">>
NotAUrl == <<"invalid-url">>
BlankUrl == <<" ">>

UrlInputs ==
  {ValidUrl, PaddedUrl, HttpUrl, OtherDomainUrl, SearchUrl, NotAUrl, BlankUrl}

RetryDelays == {DEFAULT_RETRY_DELAY, 16000}

\* raw titles and prices handed to the factories
TitleInputs ==
  { GoodTitle, <<>>, <<" ", "ab", " ">>, <<"x500", "Test">>,
    <<"<script", "Test">>, <<" ", "Test", "\n", " ", "Book">> }

PriceInputs ==
  { GoodPrice, <<>>, <<"free">>, <<"Y_HALF">>, <<"9x50", "1">>,
    <<" ", "1", "000", " ">> }

\* documents handed to the parsers: the pages above, two elements matching
\* one title selector, a blank first title element, fields found only by
\* lower-priority selectors, a rejected first price element, no field at all
ParserPages ==
  Pages \cup
  { <<HeadingElement(<<"Test">>), HeadingElement(<<"Book">>),
      PriceElement(GoodPrice)>>,
    <<TitleElement(<<" ">>), TitleElement(GoodTitle), PriceElement(GoodPrice)>>,
    <<HeadingElement(<<"ab">>), TitleElement(GoodTitle),
      Element({".a-price-whole"}, <<"free">>), KindlePriceElement(GoodPrice)>>,
    <<TitleElement(GoodTitle), PriceElement(<<"free">>),
      PriceElement(GoodPrice)>>,
    <<Element({}, <<"Test">>)>> }

GotOutcomes ==
  {GotResponse(b) : b \in Pages} \cup {GotThrow(e) : e \in GotErrors}

\* got() rejects with an Error instance (RequestError or a subclass)
LegacyOutcomes == {o \in GotOutcomes : ~o.threw \/ o.error.isObject}

\* inputs of the batch runs
BatchUrlInputs == {ValidUrl, PaddedUrl, NotAUrl}

BatchUrlLists == UNION {[1..n -> BatchUrlInputs] : n \in 0..MaxUrls}

BatchOutcomes ==
  { GotResponse(GoodPage), GotResponse(NoPricePage),
    GotThrow(GotError("ECONNREFUSED", "RequestError", 0)),
    GotThrow(GotError("", "HTTPError", 404)),
    GotThrow(GotError("", "HTTPError", 500)) }

(***************************************************************************)
(* State machine                                                           *)
(***************************************************************************)
NotReturned == <<Pending>>

\* no function has been applied yet
NoCall == [op |-> "none"]

\* no pipeline run has been started yet
PipeIdle == [pc |-> "idle"]

Configs == [maxRetries : 0..MaxRetriesBound, retryDelay : RetryDelays]

BatchConfigs == [maxRetries : 0..MaxBatchRetries, retryDelay : RetryDelays]

InitVars(configs) ==
  /\ entry = "idle"
  /\ config \in configs
  /\ urls = <<>>
  /\ tasks = <<>>
  /\ results = NotReturned
  /\ legacy = LegacyIdle
  /\ call = NoCall
  /\ pipe = PipeIdle

Init == InitVars(Configs)

\* the configuration of a client built without overrides; the runs below
\* build no client
DEFAULT_CONFIG ==
  [timeout |-> 10000, maxRetries |-> 3, retryDelay |-> DEFAULT_RETRY_DELAY]

\* { ...a, ...b }: a new object; a partial configuration is a function from
\* the fields it names
Spread(a, b) ==
  [k \in DOMAIN a \cup DOMAIN b |-> IF k \in DOMAIN b THEN b[k] ELSE a[k]]

\* new HttpClient(config): the configuration the client holds
newHttpClient(cfg) == Spread(DEFAULT_CONFIG, cfg)

\* client.withConfig(newConfig), thisConfig being the configuration of
\* client: the configuration of client after the call and that of the client
\* returned
httpClientWithConfig(thisConfig, newConfig) ==
  [original |-> thisConfig,
   created |-> newHttpClient(Spread(thisConfig, newConfig))]

\* new ScraperService(config): the configuration of its httpClient;
\* config.httpConfig may be absent
newScraperService(cfg) ==
  newHttpClient(IF "httpConfig" \in DOMAIN cfg THEN cfg.httpConfig ELSE <<>>)

\* service.withConfig(config), thisConfig being the configuration of the
\* httpClient of service
scraperServiceWithConfig(thisConfig, cfg) ==
  [original |-> thisConfig, created |-> newScraperService(cfg)]

InitDomain == InitVars({DEFAULT_CONFIG})

InitBatch == InitVars(BatchConfigs)

\* service.scrapeProduct(url), up to the await of httpClient.get
ScrapeProduct(url) ==
  /\ entry = "idle"
  /\ entry' = "scrapeProduct"
  /\ urls' = <<url>>
  /\ tasks' = <<scrapeProductStart(url)>>
  /\ UNCHANGED <<config, results, legacy, call, pipe>>

\* service.scrapeMultipleProducts(us), up to the await of Promise.all
ScrapeMultipleProducts(us) ==
  /\ entry = "idle"
  /\ entry' = "scrapeMultipleProducts"
  /\ urls' = us
  /\ tasks' = scrapeMultipleProductsStart(us)
  /\ UNCHANGED <<config, results, legacy, call, pipe>>

\* the got() call of task i settles; retryWithBackoff either returns, and
\* scrapeProduct runs to completion, or starts the backoff timer
TransportSettles(i, outcome) ==
  /\ entry \in {"scrapeProduct", "scrapeMultipleProducts"}
  /\ i \in DOMAIN tasks
  /\ tasks[i].pc = "inflight"
  /\ LET t == tasks[i]
         result == attemptRequest(outcome, t.url, t.calls)
         d == retryWithBackoff(result, config.maxRetries, config.retryDelay,
                               t.currentAttempt)
         settled == [t EXCEPT !.last = result,
                              !.seen = @ \cup {ResultClass(result)},
                              !.failures = IF result.success THEN @ ELSE @ + 1]
     IN IF d.return
        THEN \E now \in Times :
               LET f == scrapeProductFinish(urls[i], d.result, now) IN
               tasks' = [tasks EXCEPT ![i] =
                           [settled EXCEPT !.pc = "done",
                                           !.httpResult = d.result,
                                           !.stages = t.stages \o f.stages,
                                           !.result = f.result]]
        ELSE tasks' = [tasks EXCEPT ![i] =
                         [settled EXCEPT !.pc = "waiting",
                                      !.waits = Append(t.waits, d.delay),
                                      !.currentAttempt = d.currentAttempt]]
  /\ UNCHANGED <<entry, config, urls, results, legacy, call, pipe>>

\* variant: one timer is shared, so every waiting call resumes at once
BackoffElapsed_SharedTimer(i) ==
  /\ entry \in {"scrapeProduct", "scrapeMultipleProducts"}
  /\ i \in DOMAIN tasks
  /\ tasks[i].pc = "waiting"
  /\ tasks' = [j \in DOMAIN tasks |->
                IF tasks[j].pc = "waiting"
                THEN [tasks[j] EXCEPT !.pc = "inflight", !.calls = @ + 1]
                ELSE tasks[j]]
  /\ UNCHANGED <<entry, config, urls, results, legacy, call, pipe>>

\* the backoff timer of task i fires and the operation runs again
BackoffElapsed(i) ==
  /\ entry \in {"scrapeProduct", "scrapeMultipleProducts"}
  /\ i \in DOMAIN tasks
  /\ tasks[i].pc = "waiting"
  /\ tasks' = [tasks EXCEPT ![i].pc = "inflight", ![i].calls = @ + 1]
  /\ UNCHANGED <<entry, config, urls, results, legacy, call, pipe>>

\* Promise.all resolves once every scrapeProduct promise has resolved
BatchResolves ==
  /\ entry = "scrapeMultipleProducts"
  /\ results = NotReturned
  /\ \A i \in DOMAIN tasks : tasks[i].pc = "done"
  /\ results' = PromiseAll(tasks)
  /\ UNCHANGED <<entry, config, urls, tasks, legacy, call, pipe>>

\* scrapeAmazonProduct(url, {retries}), up to its first got() call
ScrapeAmazonProduct(url, retries) ==
  /\ entry = "idle"
  /\ entry' = "scrapeAmazonProduct"
  /\ legacy' = scrapeAmazonProductStart(url, retries)
  /\ UNCHANGED <<config, urls, tasks, results, call, pipe>>

\* the got() call of scrapeAmazonProduct settles and attemptScrape finishes
LegacyTransportSettles(outcome) ==
  /\ entry = "scrapeAmazonProduct"
  /\ legacy.pc = "inflight"
  /\ \E now \in Times : legacy' = attemptSettled(legacy, outcome, now)
  /\ UNCHANGED <<entry, config, urls, tasks, results, call, pipe>>

\* the legacy backoff timer fires and the operation runs again
LegacyBackoffElapsed ==
  /\ entry = "scrapeAmazonProduct"
  /\ legacy.pc = "waiting"
  /\ legacy' = [legacy EXCEPT !.pc = "inflight", !.calls = @ + 1]
  /\ UNCHANGED <<entry, config, urls, tasks, results, call, pipe>>

Next ==
  \/ \E url \in UrlInputs : ScrapeProduct(url)
  \/ \E outcome \in GotOutcomes : TransportSettles(1, outcome)
  \/ BackoffElapsed(1)
  \/ \E url \in UrlInputs : \E retries \in 0..MaxRetriesBound :
       ScrapeAmazonProduct(url, retries)
  \/ \E outcome \in LegacyOutcomes : LegacyTransportSettles(outcome)
  \/ LegacyBackoffElapsed

Spec == Init /\ [][Next]_vars

NextBatch ==
  \/ \E us \in BatchUrlLists : ScrapeMultipleProducts(us)
  \/ \E i \in 1..MaxUrls : \E outcome \in BatchOutcomes :
       TransportSettles(i, outcome)
  \/ \E i \in 1..MaxUrls : BackoffElapsed(i)
  \/ BatchResolves

SpecBatch == InitBatch /\ [][NextBatch]_vars

\* createProduct(url, title, price, now) is called
CreateProduct(url, title, price, now) ==
  /\ entry = "idle"
  /\ entry' = "createProduct"
  /\ call' = [op |-> "createProduct", url |-> url, title |-> title,
              price |-> price, now |-> now,
              result |-> createProduct(url, title, price, now)]
  /\ UNCHANGED <<config, urls, tasks, results, legacy, pipe>>

\* parseProductFromHtml(html) is called; the results of its extractTitle and
\* extractPrice calls are kept (extractPrice runs only once a title is found)
ParseProductFromHtml(html, now) ==
  /\ entry = "idle"
  /\ entry' = "parseProductFromHtml"
  /\ call' = [op |-> "parseProductFromHtml", html |-> html,
              titleResult |-> extractTitle(html),
              priceResult |-> IF extractTitle(html).success
                              THEN extractPrice(html) ELSE Pending,
              result |-> parseProductFromHtml(html, now)]
  /\ UNCHANGED <<config, urls, tasks, results, legacy, pipe>>

\* parseProductData(html) is called
ParseProductData(html) ==
  /\ entry = "idle"
  /\ entry' = "parseProductData"
  /\ call' = [op |-> "parseProductData", html |-> html,
              result |-> parseProductData(html)]
  /\ UNCHANGED <<config, urls, tasks, results, legacy, pipe>>

\* parseProductDataWithErrors(html) is called
ParseProductDataWithErrors(html) ==
  /\ entry = "idle"
  /\ entry' = "parseProductDataWithErrors"
  /\ call' = [op |-> "parseProductDataWithErrors", html |-> html,
              result |-> parseProductDataWithErrors(html)]
  /\ UNCHANGED <<config, urls, tasks, results, legacy, pipe>>

\* the inputs of a value-object factory and the factory applied to one
FactoryInputs ==
  [createAmazonURL |-> UrlInputs, createProductTitle |-> TitleInputs,
   createProductPrice |-> PriceInputs]

ApplyFactory(factory, input) ==
  CASE factory = "createAmazonURL" -> createAmazonURL(input)
    [] factory = "createProductTitle" -> createProductTitle(input)
    [] factory = "createProductPrice" -> createProductPrice(input)

\* a value-object factory is called with a raw string
CreateValueObject(factory, input) ==
  /\ entry = "idle"
  /\ entry' = "valueObject"
  /\ call' = [op |-> factory, input |-> input,
              result |-> ApplyFactory(factory, input), again |-> Pending]
  /\ UNCHANGED <<config, urls, tasks, results, legacy, pipe>>

\* the value the factory returned is fed back into the same factory
Revalidate ==
  /\ entry = "valueObject"
  /\ call.again = Pending
  /\ call.result.success
  /\ call' = [call EXCEPT !.again = ApplyFactory(call.op, call.result.data)]
  /\ UNCHANGED <<entry, config, urls, tasks, results, legacy, pipe>>

\* timestamps handed to updateProductTimestamp
NewTimestamps == Times \cup {1700001000}

\* updateProductTimestamp is called on the product createProduct returned
UpdateProductTimestamp(newTimestamp) ==
  /\ entry = "createProduct"
  /\ call.result.success
  /\ entry' = "updateProductTimestamp"
  /\ LET r == updateProductTimestamp(call.result.data, newTimestamp) IN
     call' = [op |-> "updateProductTimestamp", before |-> call.result.data,
              newTimestamp |-> newTimestamp, product |-> r.product,
              returned |-> r.returned, aliased |-> r.aliased]
  /\ UNCHANGED <<config, urls, tasks, results, legacy, pipe>>

\* config.scraper of the pipeline runs
PipelineConfigs ==
  [retries : {<<r>> : r \in 0..MaxRetriesBound} \cup {Undefined},
   delayBetweenRequests : {Undefined, <<0>>, <<500>>}]

\* processUrl(url, config), up to its first suspension
ProcessUrl(url, cfg) ==
  /\ entry = "idle"
  /\ entry' = "processUrl"
  /\ LET s == processUrlStart(PipeStart("single", <<url>>, cfg), 1) IN
     pipe' = s.pipe /\ legacy' = s.legacy
  /\ UNCHANGED <<config, urls, tasks, results, call>>

\* processBatch(urls, config), up to its first suspension
ProcessBatch(us, cfg) ==
  /\ entry = "idle"
  /\ entry' = "processBatch"
  /\ IF us = <<>>
     THEN pipe' = [PipeStart("batch", us, cfg) EXCEPT !.pc = "done"]
          /\ legacy' = legacy
     ELSE LET s == processUrlStart(PipeStart("batch", us, cfg), 1) IN
          pipe' = s.pipe /\ legacy' = s.legacy
  /\ UNCHANGED <<config, urls, tasks, results, call>>

\* the delay between two requests is over: the next processUrl starts
DelayElapsed ==
  /\ entry = "processBatch"
  /\ pipe.pc = "delay"
  /\ LET s == processUrlStart(pipe, pipe.index + 1) IN
     pipe' = s.pipe /\ legacy' = s.legacy
  /\ UNCHANGED <<entry, config, urls, tasks, results, call>>

\* the got() call of the scrape settles; when scrapeAmazonProduct returns,
\* processUrl calls the notification pipeline, when it throws, processUrl
\* returns the scraping error
PipelineTransportSettles(outcome) ==
  /\ entry \in {"processUrl", "processBatch"}
  /\ pipe.pc = "scraping"
  /\ legacy.pc = "inflight"
  /\ \E now \in Times :
       LET l == attemptSettled(legacy, outcome, now)
           i == pipe.index
       IN /\ legacy' = l
          /\ pipe' =
               IF l.pc # "done" THEN pipe
               ELSE IF l.outcome.threw
               THEN processUrlReturns(pipe, processUrlCaught(pipe.urls[i], l.outcome))
               ELSE [pipe EXCEPT !.pc = "notifying",
                       !.log = @ \o << <<"scraped", i>>, <<"notifying", i>> >>]
  /\ UNCHANGED <<entry, config, urls, tasks, results, call>>

\* the backoff timer of the scrape fires and got() is called again
PipelineBackoffElapsed ==
  /\ entry \in {"processUrl", "processBatch", "runScrapingPipeline",
                "runBatchScrapingPipeline"}
  /\ pipe.pc = "scraping"
  /\ legacy.pc = "waiting"
  /\ legacy' = [legacy EXCEPT !.pc = "inflight", !.calls = @ + 1]
  /\ UNCHANGED <<entry, config, urls, tasks, results, call, pipe>>

\* the notification pipeline resolves and processUrl returns
NotificationSettles(notificationResult) ==
  /\ entry \in {"processUrl", "processBatch"}
  /\ pipe.pc = "notifying"
  /\ LET i == pipe.index
         q == [pipe EXCEPT !.log = Append(@,
                 <<(IF notificationResult.success THEN "notified"
                    ELSE "notifyFailed"), i>>)]
     IN pipe' = processUrlReturns(q,
                  processUrlNotified(pipe.urls[i], legacy.outcome.value,
                                     notificationResult))
  /\ UNCHANGED <<entry, config, urls, tasks, results, legacy, call>>

\* runScrapingPipeline(url, config, options), up to its first suspension
RunScrapingPipeline(url, cfg) ==
  /\ entry = "idle"
  /\ entry' = "runScrapingPipeline"
  /\ LET s == runScrapingPipelineStart(PipeStart("single", <<url>>, cfg), 1) IN
     pipe' = s.pipe /\ legacy' = s.legacy
  /\ UNCHANGED <<config, urls, tasks, results, call>>

\* runBatchScrapingPipeline(urls, config, options), up to its first
\* suspension; runScrapingPipeline never rejects, so the catch block of the
\* loop is not entered
RunBatchScrapingPipeline(us, cfg) ==
  /\ entry = "idle"
  /\ entry' = "runBatchScrapingPipeline"
  /\ IF us = <<>>
     THEN pipe' = [PipeStart("batch", us, cfg) EXCEPT !.pc = "done"]
          /\ legacy' = legacy
     ELSE LET s == runScrapingPipelineStart(PipeStart("batch", us, cfg), 1) IN
          pipe' = s.pipe /\ legacy' = s.legacy
  /\ UNCHANGED <<config, urls, tasks, results, call>>

\* the got() call of the scrape settles; when scrapeAmazonProduct returns or
\* throws, runScrapingPipeline goes on to its notification step
ScrapeTransportSettles(outcome) ==
  /\ entry \in {"runScrapingPipeline", "runBatchScrapingPipeline"}
  /\ pipe.pc = "scraping"
  /\ legacy.pc = "inflight"
  /\ \E now \in Times :
       LET l == attemptSettled(legacy, outcome, now) IN
       /\ legacy' = l
       /\ pipe' = IF l.pc # "done" THEN pipe
                  ELSE runScrapingPipelineScraped(pipe, l)
  /\ UNCHANGED <<entry, config, urls, tasks, results, call>>

\* the webhook request of the success notification settles
WebhookSettles(notifyResult) ==
  /\ entry \in {"runScrapingPipeline", "runBatchScrapingPipeline"}
  /\ pipe.pc = "notifying"
  /\ LET q == [pipe EXCEPT !.log = Append(@,
                 <<(IF notifyResult.success THEN "notified"
                    ELSE "notifyFailed"), pipe.index>>)]
     IN pipe' = runScrapingPipelineReturns(q,
                  runScrapingPipelineNotified(ok(legacy.outcome.value),
                                              notifyResult))
  /\ UNCHANGED <<entry, config, urls, tasks, results, legacy, call>>

\* the 1000 ms timer of runBatchScrapingPipeline fires: the loop goes on to
\* the next URL or ends
BatchDelayElapsed ==
  /\ entry = "runBatchScrapingPipeline"
  /\ pipe.pc = "delay"
  /\ IF pipe.index < Len(pipe.urls)
     THEN LET s == runScrapingPipelineStart(pipe, pipe.index + 1) IN
          pipe' = s.pipe /\ legacy' = s.legacy
     ELSE pipe' = [pipe EXCEPT !.pc = "done"] /\ legacy' = legacy
  /\ UNCHANGED <<entry, config, urls, tasks, results, call>>

NextPipeline ==
  \/ \E url \in {ValidUrl, NotAUrl, <<>>} :
     \E cfg \in [retries : {<<r>> : r \in 1..MaxRetriesBound},
                 notifyOnSuccess : BOOLEAN, notifyOnError : BOOLEAN] :
       RunScrapingPipeline(url, cfg)
  \/ \E us \in UNION {[1..n -> {ValidUrl, NotAUrl}] : n \in 0..MaxUrls} :
     \E cfg \in [retries : {<<1>>},
                 notifyOnSuccess : BOOLEAN, notifyOnError : BOOLEAN] :
       RunBatchScrapingPipeline(us, cfg)
  \/ \E outcome \in {GotResponse(GoodPage),
                      GotThrow(GotError("ECONNREFUSED", "RequestError", 0)),
                      GotThrow(GotError("", "HTTPError", 404))} :
       ScrapeTransportSettles(outcome)
  \/ \E r \in {ok(Undefined),
                err([type |-> "notification_error",
                     error |-> [type |-> "network_error"]])} :
       WebhookSettles(r)
  \/ BatchDelayElapsed
  \/ \E url \in {ValidUrl, OtherDomainUrl, NotAUrl, <<>>} :
     \E cfg \in PipelineConfigs : ProcessUrl(url, cfg)
  \/ \E us \in UNION {[1..n -> {ValidUrl, NotAUrl}] : n \in 0..MaxUrls} :
     \E cfg \in PipelineConfigs : ProcessBatch(us, cfg)
  \/ DelayElapsed
  \/ \E outcome \in {GotResponse(GoodPage), GotResponse(NoTitlePage),
                      GotThrow(GotError("ECONNREFUSED", "RequestError", 0))} :
       PipelineTransportSettles(outcome)
  \/ PipelineBackoffElapsed
  \/ \E r \in {ok(Undefined), err([message |-> "Webhook failed"])} :
       NotificationSettles(r)

SpecPipeline == InitDomain /\ [][NextPipeline]_vars

\* getConfigSummary(config) is called
GetConfigSummary(cfg) ==
  /\ entry = "idle"
  /\ entry' = "getConfigSummary"
  /\ call' = [op |-> "getConfigSummary", config |-> cfg,
              result |-> getConfigSummary(cfg)]
  /\ UNCHANGED <<config, urls, tasks, results, legacy, pipe>>

\* withConfig is called on a client, or on a service, built from initial
\* with the partial configuration argument
WithConfig(class, initial, argument) ==
  /\ entry = "idle"
  /\ entry' = "withConfig"
  /\ call' =
       IF class = "HttpClient"
       THEN [op |-> "withConfig", class |-> class,
             before |-> newHttpClient(initial), argument |-> argument,
             result |-> httpClientWithConfig(newHttpClient(initial), argument)]
       ELSE LET wrap(c) == IF c = <<>> THEN <<>> ELSE [httpConfig |-> c] IN
            [op |-> "withConfig", class |-> class,
             before |-> newScraperService(wrap(initial)),
             argument |-> argument,
             result |-> scraperServiceWithConfig(
                          newScraperService(wrap(initial)), wrap(argument))]
  /\ UNCHANGED <<config, urls, tasks, results, legacy, pipe>>

IsScraperErrorRetryable(error) ==
  /\ entry = "idle"
  /\ entry' = "isScraperErrorRetryable"
  /\ call' = [op |-> "isScraperErrorRetryable", error |-> error,
              result |-> isScraperErrorRetryable(error)]
  /\ UNCHANGED <<config, urls, tasks, results, legacy, pipe>>

NextDomain ==
  \/ \E class \in {"HttpClient", "ScraperService"} :
     \E initial \in
       {[k \in S |-> [timeout |-> 5000, maxRetries |-> 5,
                      retryDelay |-> 2000][k]] :
          S \in SUBSET {"timeout", "maxRetries", "retryDelay"}} :
     \E argument \in
       {[k \in S |-> [timeout |-> 8000, maxRetries |-> 4,
                      retryDelay |-> 500][k]] :
          S \in SUBSET {"timeout", "maxRetries", "retryDelay"}} :
       WithConfig(class, initial, argument)
  \/ \E error \in
       {[type |-> "HttpError", httpError |-> HttpError(t, 0, 1)] :
          t \in {"NetworkError", "TimeoutError", "ParseError", "UnknownError"}}
       \cup {[type |-> "HttpError", httpError |-> HttpError("StatusError", c, 1)] :
               c \in {301, 404, 429, 499, 500, 503}}
       \cup {[type |-> t] : t \in {"UrlValidationError", "ParsingError",
                                   "ProductCreationError", "ServiceError"}} :
       IsScraperErrorRetryable(error)
  \/ \E cfg \in
       [webhookUrl :
          {<<"https:", "/", "/", "discord.com", "/", "api", "/", "webhooks",
             "/", id>> \o rest :
             id \in {"123", "456"},
             rest \in {<<"/", "secret-token">>, <<"/", "other_token">>,
                       <<"/", "secret-token", "/">>}},
        username : {Undefined, <<"Test Bot">>},
        timeout : {Undefined, <<15000>>},
        scraper :
          {[timeout |-> Undefined, retries |-> Undefined,
            delayBetweenRequests |-> Undefined],
           [timeout |-> <<12000>>, retries |-> <<4>>,
            delayBetweenRequests |-> <<1500>>]}] :
       GetConfigSummary(cfg)
  \/ \E newTimestamp \in NewTimestamps : UpdateProductTimestamp(newTimestamp)
  \/ \E factory \in DOMAIN FactoryInputs :
     \E input \in FactoryInputs[factory] : CreateValueObject(factory, input)
  \/ Revalidate
  \/ \E html \in ParserPages : \E now \in Times :
       ParseProductFromHtml(html, now)
  \/ \E html \in ParserPages : ParseProductData(html)
  \/ \E html \in ParserPages : ParseProductDataWithErrors(html)
  \/ \E url \in UrlInputs : \E title \in TitleInputs :
     \E price \in PriceInputs : \E now \in Times :
       CreateProduct(url, title, price, now)

SpecDomain == InitDomain /\ [][NextDomain]_vars

(***************************************************************************)
(* Properties                                                              *)
(***************************************************************************)
Failed(r) == r # Pending /\ ~r.success

Succeeded(r) == r # Pending /\ r.success

TransientClasses == {"network", "timeout"}

InvalidUrlInputs == {HttpUrl, OtherDomainUrl, SearchUrl, NotAUrl, BlankUrl}

IsClientError(error) ==
  error.type = "StatusError" /\ error.statusCode \in 400..499

\* C1: with maxRetries = M >= 1 and a transport whose every attempt fails
\* with NetworkError or TimeoutError, HttpClient.get never invokes the
\* transport more than M times.
C1_AtMostMaxRetriesInvocations ==
  \A i \in DOMAIN tasks :
    (config.maxRetries >= 1 /\ tasks[i].seen \subseteq TransientClasses)
      => tasks[i].calls <= config.maxRetries

\* C2: an attempt that failed with ParseError or UnknownError is never
\* followed by a backoff wait or a further attempt: get returns that error,
\* and when it was the first attempt the transport was invoked exactly once.
C2_ParseAndUnknownNotRetried ==
  \A i \in DOMAIN tasks :
    (Failed(tasks[i].last)
     /\ tasks[i].last.error.type \in {"ParseError", "UnknownError"})
      => /\ tasks[i].pc = "done"
         /\ tasks[i].httpResult = tasks[i].last
         /\ tasks[i].calls = tasks[i].last.error.id
         /\ Len(tasks[i].waits) = tasks[i].calls - 1

\* C3: scrapeMultipleProducts is strictly sequential: at most one URL's
\* fetch is in progress at any moment, and the fetch of a later URL is not
\* started before the Result of every earlier URL has been produced.
C3_BatchIsSequential ==
  /\ Cardinality({i \in DOMAIN tasks : tasks[i].pc \in {"inflight", "waiting"}}) <= 1
  /\ \A i, j \in DOMAIN tasks :
       (i < j /\ tasks[j].calls > 0) => tasks[i].pc = "done"

\* C4: an attempt that fails with a StatusError 400..499 ends the call at
\* once, for every maxRetries: no wait and no further attempt follows, the
\* Failure returned is that StatusError, and when it was the first attempt
\* the transport was invoked exactly once.
C4_ClientErrorIsTerminal ==
  \A i \in DOMAIN tasks :
    (Failed(tasks[i].last) /\ IsClientError(tasks[i].last.error))
      => /\ tasks[i].pc = "done"
         /\ tasks[i].httpResult = tasks[i].last
         /\ tasks[i].httpResult.error.statusCode \in 400..499
         /\ tasks[i].calls = tasks[i].last.error.id
         /\ Len(tasks[i].waits) = tasks[i].calls - 1
         /\ tasks[i].result.error.type = "HttpError"
         /\ tasks[i].result.error.httpError = tasks[i].last.error

C4_Witness ==
  /\ entry = "scrapeProduct"
  /\ config.maxRetries >= 1
  /\ Failed(tasks[1].last)
  /\ tasks[1].last.error.statusCode = 404
  /\ tasks[1].calls = 1
  /\ tasks[1].waits = <<>>
  /\ tasks[1].pc = "done"

\* C5: with maxRetries = M, while the transport has failed only with
\* NetworkError or TimeoutError and at most M-1 times, get has not given
\* up; and when the next attempt succeeds get returns that attempt's
\* response as Success after exactly (number of failures + 1) invocations.
C5_SuccessAfterTransientFailures ==
  \A i \in DOMAIN tasks :
    (tasks[i].last # Pending
     /\ tasks[i].seen \subseteq (TransientClasses \cup {"success"})
     /\ tasks[i].failures <= config.maxRetries - 1)
      => IF tasks[i].last.success
         THEN /\ tasks[i].httpResult = tasks[i].last
              /\ tasks[i].calls = tasks[i].failures + 1
              /\ tasks[i].calls <= config.maxRetries
         ELSE tasks[i].httpResult = Pending

C5_Witness ==
  /\ entry = "scrapeProduct"
  /\ config.maxRetries >= 2
  /\ tasks[1].seen = {"timeout", "success"}
  /\ tasks[1].failures = config.maxRetries - 1
  /\ tasks[1].calls = config.maxRetries
  /\ Succeeded(tasks[1].httpResult)

\* C6: when get returns Failure, the error is the error value produced by
\* the last transport invocation made, and scrapeProduct returns it
\* unchanged as the httpError of an HttpError result.
C6_LastErrorPreserved ==
  \A i \in DOMAIN tasks :
    Failed(tasks[i].httpResult)
      => /\ tasks[i].httpResult = tasks[i].last
         /\ tasks[i].httpResult.error.id = tasks[i].calls
         /\ tasks[i].result = err([type |-> "HttpError",
                                   message |-> tasks[i].last.error.type,
                                   httpError |-> tasks[i].last.error])

C6_Witness ==
  /\ entry = "scrapeProduct"
  /\ Failed(tasks[1].httpResult)
  /\ tasks[1].calls >= 2
  /\ Cardinality(tasks[1].seen) >= 2
  /\ tasks[1].result.error.httpError.id = tasks[1].calls

\* C7: for the same maxRetries and retryDelay, a get whose every attempt
\* failed with a StatusError >= 500 and a get whose every attempt failed
\* with NetworkError have made the same number of transport invocations
\* and the same sequence of backoff waits once both have returned.
C7_ServerErrorRetriedLikeNetworkError ==
  \A i, j \in DOMAIN tasks :
    (/\ Failed(tasks[i].httpResult) /\ tasks[i].seen = {"5xx"}
     /\ Failed(tasks[j].httpResult) /\ tasks[j].seen = {"network"})
      => /\ tasks[i].calls = tasks[j].calls
         /\ tasks[i].waits = tasks[j].waits

C7_Witness ==
  /\ config.maxRetries >= 1
  /\ \E i, j \in DOMAIN tasks :
       /\ Failed(tasks[i].httpResult) /\ tasks[i].seen = {"5xx"}
       /\ Failed(tasks[j].httpResult) /\ tasks[j].seen = {"network"}
       /\ tasks[i].calls >= 2
       /\ Len(tasks[j].waits) >= 1

\* C8: scrapeProduct called with a string that fails URL validation
\* returns a UrlValidationError Failure without any transport invocation,
\* and scrapeAmazonProduct called with a URL that does not contain
\* amazon.co.jp fails without any transport invocation.
C8_InvalidUrlNeverFetched ==
  /\ \A i \in DOMAIN tasks :
       urls[i] \in InvalidUrlInputs
         => /\ tasks[i].calls = 0
            /\ tasks[i].pc = "done"
            /\ Failed(tasks[i].result)
            /\ tasks[i].result.error.type = "UrlValidationError"
            /\ tasks[i].result.error.url = urls[i]
  /\ (entry = "scrapeAmazonProduct" /\ legacy.url \in {NotAUrl, BlankUrl})
       => /\ legacy.calls = 0
          /\ legacy.pc = "done"
          /\ legacy.outcome.threw

C8_Witness ==
  /\ entry = "scrapeProduct"
  /\ urls[1] = OtherDomainUrl
  /\ tasks[1].calls = 0
  /\ tasks[1].result.error.type = "UrlValidationError"

StageErrorType(stage) ==
  CASE stage = "validate" -> "UrlValidationError"
    [] stage = "fetch" -> "HttpError"
    [] stage = "extract" -> "ParsingError"
    [] stage = "assemble" -> "ProductCreationError"

\* C9: scrapeProduct runs validate, fetch, extract, assemble in this order,
\* each at most once and none after a failed stage; the error type names
\* the first failing stage, and Success is returned exactly when all four
\* stages succeeded.
C9_StagesShortCircuitInOrder ==
  \A i \in DOMAIN tasks :
    LET t == tasks[i]
        n == Len(t.stages)
    IN /\ n \in 1..4
       /\ \A k \in 1..n : t.stages[k].stage = StageOrder[k]
       /\ \A k \in 1..(n - 1) : t.stages[k].ok
       /\ t.pc # "done" => (n = 1 /\ t.stages[1].ok /\ t.result = Pending)
       /\ t.pc = "done" =>
            /\ t.result # Pending
            /\ t.result.success <=> (n = 4 /\ t.stages[4].ok)
            /\ ~t.stages[n].ok =>
                 /\ ~t.result.success
                 /\ t.result.error.type = StageErrorType(t.stages[n].stage)
            /\ t.result.success =>
                 /\ urls[i] \notin InvalidUrlInputs
                 /\ Succeeded(t.httpResult)
                 /\ t.httpResult.data.body = GoodPage

C9_Witness ==
  /\ entry = "scrapeProduct"
  /\ tasks[1].pc = "done"
  /\ Len(tasks[1].stages) = 4
  /\ ~tasks[1].stages[4].ok
  /\ tasks[1].result.error.type = "ProductCreationError"

\* C10: scrapeMultipleProducts given N URLs returns exactly N Results,
\* result i being the outcome of input URL i, whatever the other URLs'
\* outcomes are: failed URLs are reported in place and do not keep the
\* other URLs from being processed and reported.
C10_BatchReportsEveryUrlInOrder ==
  (entry = "scrapeMultipleProducts" /\ results # NotReturned)
    => /\ Len(results) = Len(urls)
       /\ \A i \in 1..Len(urls) :
            /\ tasks[i].pc = "done"
            /\ results[i] = tasks[i].result
            /\ results[i].success => results[i].data.url = Trim(urls[i])
            /\ (~results[i].success
                /\ results[i].error.type = "UrlValidationError")
                 => results[i].error.url = urls[i]
            /\ urls[i] = NotAUrl
                 <=> (~results[i].success
                      /\ results[i].error.type = "UrlValidationError")

C10_Witness ==
  /\ entry = "scrapeMultipleProducts"
  /\ results # NotReturned
  /\ Len(results) = 2
  /\ ~results[1].success
  /\ results[1].error.type = "HttpError"
  /\ results[2].success
  /\ results[2].data.url = Trim(PaddedUrl)

\* C11: createProduct succeeds exactly when the URL, title and price
\* factories all succeed; otherwise it fails with ProductCreationFailed whose
\* details hold one error per invalid field, in the order URL, title, price.
C11_CreateProductAggregatesErrors ==
  call.op = "createProduct" =>
    LET u == createAmazonURL(call.url)
        t == createProductTitle(call.title)
        p == createProductPrice(call.price)
        expected ==
          (IF u.success THEN <<>> ELSE <<"InvalidAmazonURL">>)
          \o (IF t.success THEN <<>> ELSE <<"InvalidProductTitle">>)
          \o (IF p.success THEN <<>> ELSE <<"InvalidProductPrice">>)
        r == call.result
    IN /\ r.success <=> expected = <<>>
       /\ ~r.success =>
            /\ r.error.type = "ProductCreationFailed"
            /\ Len(r.error.details) = Len(expected)
            /\ \A i \in 1..Len(expected) :
                 r.error.details[i].type = expected[i]

C11_Witness ==
  /\ call.op = "createProduct"
  /\ ~call.result.success
  /\ Len(call.result.error.details) = 3
  /\ call.result.error.details[1].type = "InvalidAmazonURL"
  /\ call.result.error.details[3].type = "InvalidProductPrice"

\* C12: in scrapeAmazonProduct extraction errors are terminal: when every
\* page the transport returned lacked an extractable title or price, the
\* transport has been invoked exactly once and no backoff wait has occurred.
C12_ExtractionErrorsAreTerminal ==
  (entry = "scrapeAmazonProduct" /\ legacy.seen = {"extraction"})
    => legacy.calls = 1 /\ legacy.waits = <<>>

\* C13: scrapeAmazonProduct with retries = R >= 1: when every attempt fails
\* the transport is invoked exactly R times and the thrown error reports R
\* attempts and the last attempt's message; when k < R attempts fail and the
\* next returns a valid page, the transport is invoked exactly k + 1 times
\* and the product is returned.
C13_LegacyRetryCounts ==
  (entry = "scrapeAmazonProduct" /\ legacy.pc = "done"
     /\ legacy.retries >= 1 /\ legacy.calls >= 1)
    => IF legacy.outcome.threw
       THEN /\ legacy.failures = legacy.calls
            /\ legacy.calls = legacy.retries
            /\ legacy.outcome.attempts = legacy.retries
            /\ legacy.outcome.message = legacy.last.message
       ELSE /\ legacy.failures < legacy.retries
            /\ legacy.calls = legacy.failures + 1
            /\ legacy.outcome = legacy.last
            /\ legacy.outcome.value.title # <<>>

C13_Witness ==
  /\ entry = "scrapeAmazonProduct"
  /\ legacy.pc = "done"
  /\ legacy.retries = 2
  /\ legacy.failures = 1
  /\ legacy.calls = 2
  /\ ~legacy.outcome.threw

\* C14: in HttpClient.get the wait after the failed attempt with index k
\* (from 0) is min(retryDelay * 2^k, 30000) ms, so successive waits never
\* decrease and none exceeds 30000 ms.
C14_BackoffDoublesUpToCap ==
  \A i \in DOMAIN tasks :
    \A j \in 1..Len(tasks[i].waits) :
      LET doubled == config.retryDelay * Pow2(j - 1) IN
      /\ tasks[i].waits[j] = IF doubled < 30000 THEN doubled ELSE 30000
      /\ tasks[i].waits[j] <= 30000
      /\ j > 1 => tasks[i].waits[j - 1] <= tasks[i].waits[j]

C14_Witness ==
  /\ entry = "scrapeProduct"
  /\ Len(tasks[1].waits) = 2
  /\ tasks[1].waits[1] = 16000
  /\ tasks[1].waits[2] = 30000

\* C15: field extraction returns the trimmed text of the first matching
\* element of the earliest selector in the field's list whose first-match
\* text satisfies the accept predicate (non-empty for the title, yen glyph
\* or digit for the price); the field is absent only if no selector is
\* accepted.
C15_ExtractsFirstAcceptedMatch ==
  call.op = "parseProductFromHtml" =>
    LET kt == FirstAccepted(call.html, TITLE_SELECTORS, 1, "title")
        kp == FirstAccepted(call.html, PRICE_SELECTORS, 1, "price")
    IN /\ call.titleResult.success <=> kt # 0
       /\ kt # 0 =>
            call.titleResult.data = FirstText(call.html, TITLE_SELECTORS[kt])
       /\ call.priceResult # Pending =>
            /\ call.priceResult.success <=> kp # 0
            /\ kp # 0 =>
                 call.priceResult.data = FirstText(call.html, PRICE_SELECTORS[kp])

\* C16: the fail-fast parsers return a single error, the title error when
\* the title is not found and the price error only when the title is found;
\* the aggregating parser returns one ElementNotFound per field not found,
\* title before price; each succeeds exactly when both fields are found.
C16_FailFastAndAggregating ==
  /\ call.op = "parseProductFromHtml" =>
       LET t == extractTitle(call.html).success
           p == extractPrice(call.html).success
       IN /\ call.result.success <=> (t /\ p)
          /\ ~t => call.result.error.type = "TITLE_NOT_FOUND"
          /\ (t /\ ~p) => call.result.error.type = "PRICE_NOT_FOUND"
  /\ call.op = "parseProductData" =>
       LET t == extractTitleField(call.html).success
           p == extractPriceField(call.html).success
       IN /\ call.result.success <=> (t /\ p)
          /\ ~t => call.result.error = extractTitleField(call.html).error
          /\ (t /\ ~p) => call.result.error = extractPriceField(call.html).error
  /\ call.op = "parseProductDataWithErrors" =>
       LET t == extractTitleField(call.html).success
           p == extractPriceField(call.html).success
           missing == (IF t THEN <<>> ELSE <<TITLE_SELECTORS>>)
                      \o (IF p THEN <<>> ELSE <<PRICE_SELECTORS>>)
       IN /\ call.result.success <=> (t /\ p)
          /\ ~call.result.success =>
               /\ Len(call.result.error) = Len(missing)
               /\ \A i \in 1..Len(missing) :
                    /\ call.result.error[i].type = "ElementNotFound"
                    /\ call.result.error[i].selectors = missing[i]

C16_Witness ==
  /\ call.op = "parseProductFromHtml"
  /\ ~extractTitle(call.html).success
  /\ ~extractPrice(call.html).success
  /\ ~call.result.success
  /\ call.result.error.type = "TITLE_NOT_FOUND"

\* C17: the value-object factories are idempotent on their own outputs:
\* when createAmazonURL, createProductTitle or createProductPrice succeeded
\* with value v, the same factory applied to v succeeds and yields v.
C17_FactoriesIdempotent ==
  (entry = "valueObject" /\ call.again # Pending)
    => call.again = ok(call.result.data)

C17_Witness ==
  /\ entry = "valueObject"
  /\ call.op = "createProductTitle"
  /\ call.result.success
  /\ call.result.data # call.input
  /\ call.again # Pending
  /\ call.again.success

\* C18: updateProductTimestamp(product, t) returns a new Product whose
\* timestamp is t and whose url, title and price are those of the input, and
\* leaves the input Product, its timestamp included, unchanged.
C18_TimestampUpdateIsPure ==
  call.op = "updateProductTimestamp" =>
    /\ call.returned.timestamp = call.newTimestamp
    /\ call.returned.url = call.before.url
    /\ call.returned.title = call.before.title
    /\ call.returned.price = call.before.price
    /\ DOMAIN call.returned = DOMAIN call.before
    /\ call.product = call.before
    /\ ~call.aliased

C18_Witness ==
  /\ call.op = "updateProductTimestamp"
  /\ call.newTimestamp # call.before.timestamp
  /\ call.returned.timestamp = 1700001000
  /\ call.product.timestamp = 1700000000

\* C19: processUrl returns success exactly when URL validation, scraping
\* and notification all succeed; the error type is validation_error,
\* scraping_error or notification_error by the first step that failed; the
\* product is in the result exactly when scraping succeeded; and nothing is
\* scraped or notified when URL validation fails.
C19_ProcessUrlReportsFirstFailure ==
  entry \in {"processUrl", "processBatch"} =>
    \A i \in 1..Len(pipe.results) :
      LET r == pipe.results[i]
          url == pipe.urls[i]
          evs == {e[1] : e \in {x \in Range(pipe.log) : x[2] = i}}
          valid == url # <<>> /\ "amazon.co.jp" \in Range(url)
          scraped == "scraped" \in evs
          notified == "notified" \in evs
      IN /\ r.url = url
         /\ r.success <=> (valid /\ scraped /\ notified)
         /\ ~r.success =>
              r.error.type = IF ~valid THEN "validation_error"
                             ELSE IF ~scraped THEN "scraping_error"
                             ELSE "notification_error"
         /\ ("data" \in DOMAIN r) <=> scraped
         /\ ~valid => ("scraping" \notin evs /\ "notifying" \notin evs)
         /\ "notifying" \in evs => scraped

C19_Witness ==
  /\ entry = "processUrl"
  /\ pipe.pc = "done"
  /\ ~pipe.results[1].success
  /\ pipe.results[1].error.type = "notification_error"
  /\ "data" \in DOMAIN pipe.results[1]
  /\ <<"notifyFailed", 1>> \in Range(pipe.log)

\* C20: processBatch handles its N URLs one at a time in input order, waits
\* the configured scraper.delayBetweenRequests (1000 ms when none is
\* configured) before every URL but the first, max(N - 1, 0) waits in all,
\* and returns N results in input order.
C20_BatchWaitsConfiguredDelay ==
  (entry = "processBatch" /\ pipe.pc = "done") =>
    LET N == Len(pipe.urls)
        configured == pipe.config.delayBetweenRequests
        expected == IF configured = <<>> THEN 1000 ELSE configured[1]
    IN /\ Len(pipe.results) = N
       /\ \A i \in 1..N : pipe.results[i].url = pipe.urls[i]
       /\ Len(pipe.waits) = IF N > 0 THEN N - 1 ELSE 0
       /\ \A j \in 1..Len(pipe.waits) : pipe.waits[j] = expected
       /\ \A i \in 1..(N - 1) :
            \E a, b, c \in DOMAIN pipe.log :
              /\ a < b /\ b < c
              /\ pipe.log[a] = <<"end", i>>
              /\ pipe.log[b] = <<"wait", i>>
              /\ pipe.log[c] = <<"start", i + 1>>

\* C21: getConfigSummary never reveals the Discord webhook token: when the
\* webhookUrl matches the Discord webhook pattern, the summary shows "***"
\* in place of the token and is the summary of every configuration that
\* differs only in the token.
C21_SummaryHidesToken ==
  (call.op = "getConfigSummary"
     /\ Len(call.config.webhookUrl) = 12
     /\ SubSeq(call.config.webhookUrl, 1, 9) =
          <<"https:", "/", "/", "discord.com", "/", "api", "/", "webhooks", "/">>
     /\ call.config.webhookUrl[10] \in {"123", "456"}
     /\ call.config.webhookUrl[11] = "/"
     /\ call.config.webhookUrl[12] \in {"secret-token", "other_token"})
    => /\ call.result.discord.webhookUrl =
            SubSeq(call.config.webhookUrl, 1, 11) \o <<"***">>
       /\ call.config.webhookUrl[12] \notin Range(call.result.discord.webhookUrl)
       /\ \A token \in {"secret-token", "other_token"} :
            getConfigSummary([call.config EXCEPT !.webhookUrl[12] = token])
              = call.result

C21_Witness ==
  /\ call.op = "getConfigSummary"
  /\ call.config.webhookUrl[Len(call.config.webhookUrl)] = "secret-token"
  /\ call.result.discord.webhookUrl[12] = "***"
  /\ call.result.discord.username = "Test Bot"

\* C22: concurrent scrapeProduct / HttpClient.get calls do not block each
\* other and share no mutable state: while one call is suspended in a
\* backoff wait, another call whose request is in flight can still settle,
\* and a step of one call never changes the state of a waiting call.
C22_BackoffDoesNotBlockOthers ==
  [][\A i, j \in DOMAIN tasks :
       (i # j /\ tasks[i].pc = "waiting") =>
         /\ tasks[j].pc = "inflight" =>
              ENABLED (\E outcome \in BatchOutcomes : TransportSettles(j, outcome))
         /\ tasks'[j] # tasks[j] => tasks'[i] = tasks[i]]_vars

C22_Witness ==
  /\ entry = "scrapeMultipleProducts"
  /\ Len(tasks) = 2
  /\ tasks[1].pc = "waiting"
  /\ tasks[1].calls = 1
  /\ tasks[2].pc = "done"
  /\ tasks[2].calls = 2
  /\ Len(tasks[2].waits) = 1
  /\ Succeeded(tasks[2].result)

\* C23: when runScrapingPipeline runs with notifyOnError, the URL is valid
\* and scraping has failed, a webhook request reporting the failure is
\* sent. The error notification is started before runScrapingPipeline
\* returns and nothing sends a request afterwards, so the request has been
\* sent by the time the function has returned.
C23_FailureNotificationSent ==
  (/\ entry = "runScrapingPipeline"
   /\ pipe.pc = "done"
   /\ pipe.config.notifyOnError
   /\ pipelineValidateAmazonUrl(pipe.urls[1]).success
   /\ ~pipe.results[1].success)
  => <<"webhook", 1>> \in Range(pipe.log)

\* C24 as stated: a successful scrape is returned as Success with the
\* scraped product whatever the notification did; no notification is
\* attempted for a URL that fails validation, nor for any URL when
\* notifyOnSuccess is false; a notification is attempted only once the
\* scrape has finished.
C24_NoNotificationWithoutNotifyOnSuccess ==
  entry \in {"runScrapingPipeline", "runBatchScrapingPipeline"} =>
    /\ (/\ pipe.pc \in {"done", "delay"} /\ pipe.index > 0
        /\ legacy.pc = "done" /\ ~legacy.outcome.threw)
       => pipe.results[pipe.index] = ok(legacy.outcome.value)
    /\ \A i \in DOMAIN pipe.urls :
         (~pipelineValidateAmazonUrl(pipe.urls[i]).success
          \/ ~pipe.config.notifyOnSuccess)
         => <<"sendNotification", i>> \notin Range(pipe.log)
    /\ <<"sendNotification", pipe.index>> \in Range(pipe.log)
       => legacy.pc = "done"

\* C24: a successful scrape is returned as Success with the scraped product
\* whether the notification succeeded, failed or was disabled; no
\* notification is attempted for a URL that fails validation, nor for a
\* successfully scraped URL when notifyOnSuccess is false, nor for a failed
\* scrape when notifyOnError is false; a notification is attempted only
\* once the scrape has finished.
C24_NotificationNeverFailsScrape ==
  entry \in {"runScrapingPipeline", "runBatchScrapingPipeline"} =>
    /\ (/\ pipe.pc \in {"done", "delay"} /\ pipe.index > 0
        /\ legacy.pc = "done" /\ ~legacy.outcome.threw)
       => pipe.results[pipe.index] = ok(legacy.outcome.value)
    /\ \A i \in DOMAIN pipe.urls :
         <<"sendNotification", i>> \in Range(pipe.log) =>
           /\ pipelineValidateAmazonUrl(pipe.urls[i]).success
           /\ i < pipe.index \/ legacy.pc = "done"
           /\ i \in DOMAIN pipe.results =>
                IF pipe.results[i].success THEN pipe.config.notifyOnSuccess
                ELSE pipe.config.notifyOnError
    /\ <<"sendNotification", pipe.index>> \in Range(pipe.log)
       => legacy.pc = "done"

C24_Witness ==
  /\ entry = "runScrapingPipeline" /\ pipe.pc = "done"
  /\ <<"notifyFailed", 1>> \in Range(pipe.log)
  /\ pipe.results[1].success

\* C25: runBatchScrapingPipeline waits 1000 ms only between consecutive
\* URLs: when it returns it has waited exactly max(N-1, 0) times for N URLs
\* and it did not wait after the last URL.
C25_WaitsOnlyBetweenUrls ==
  (entry = "runBatchScrapingPipeline" /\ pipe.pc = "done") =>
    LET N == Len(pipe.urls) IN
    /\ Len(pipe.waits) = (IF N > 1 THEN N - 1 ELSE 0)
    /\ <<"wait", N>> \notin Range(pipe.log)

\* C26: for a ScraperError of type HttpError wrapping the HttpError e,
\* isScraperErrorRetryable returns what isRetryableError(e) returns; for
\* UrlValidationError, ParsingError and ProductCreationError it returns
\* false.
C26_RetryableAgreesWithHttpClient ==
  call.op = "isScraperErrorRetryable" =>
    /\ call.error.type = "HttpError"
       => call.result = isRetryableError(call.error.httpError)
    /\ call.error.type \in {"UrlValidationError", "ParsingError",
                            "ProductCreationError"}
       => call.result = FALSE

\* C27: for every URL and every outcome of fetch and extraction,
\* scrapeProductFunctional resolves to the Result scrapeProduct resolves to:
\* the same Product or the same stage-tagged ScraperError.
C27_FunctionalEqualsScrapeProduct ==
  \A i \in DOMAIN tasks :
    tasks[i].pc = "done" =>
      \A now \in Times :
        scrapeProductFunctional(urls[i], tasks[i].httpResult, now)
          = tasks[i].result

\* C28: withConfig, of HttpClient and of ScraperService, leaves the
\* configuration of the original instance unchanged and returns a new
\* instance in which every field named in the argument has the new value and
\* every other field the value it had in the original instance.
C28_WithConfigKeepsUnnamedFields ==
  call.op = "withConfig" =>
    /\ call.result.original = call.before
    /\ \A k \in DOMAIN call.before :
         call.result.created[k] =
           IF k \in DOMAIN call.argument THEN call.argument[k]
           ELSE call.before[k]

\* C29: every HttpClient.get call ends after finitely many attempts, and
\* when it has returned the number of backoff waits is the number of
\* transport invocations minus one. In every state of a call: the transport
\* has been invoked at most maxRetries + 1 times; while a request is in
\* flight there is one wait less than invocations (none before the first)
\* and the request can settle; while a backoff wait runs there are as many
\* waits as invocations and the timer can fire, so every wait is followed by
\* an attempt; once the call has returned there is one wait less than
\* invocations. Every step of the call lowers the number of steps that may
\* still follow.
C29_GetTerminatesWithOneWaitLess ==
  /\ [](entry = "scrapeProduct" =>
         /\ tasks[1].calls <= config.maxRetries + 1
         /\ tasks[1].pc = "inflight" =>
              /\ Len(tasks[1].waits) = tasks[1].calls - 1
              /\ ENABLED (\E outcome \in GotOutcomes :
                            TransportSettles(1, outcome))
         /\ tasks[1].pc = "waiting" =>
              /\ Len(tasks[1].waits) = tasks[1].calls
              /\ ENABLED BackoffElapsed(1)
         /\ (tasks[1].pc = "done" /\ tasks[1].calls > 0) =>
              Len(tasks[1].waits) = tasks[1].calls - 1)
  /\ [][LET Remaining(t) ==
              IF t.pc = "done" THEN 0
              ELSE 2 * (config.maxRetries + 1 - t.calls)
                   + (IF t.pc = "inflight" THEN 2 ELSE 1)
        IN entry = "scrapeProduct" =>
             /\ Remaining(tasks[1]) > 0
             /\ Remaining(tasks'[1]) < Remaining(tasks[1])]_vars

C29_Witness ==
  /\ entry = "scrapeProduct" /\ tasks[1].pc = "done"
  /\ tasks[1].calls = 3 /\ Len(tasks[1].waits) = 2
  /\ Failed(tasks[1].result)
====
